---- MODULE Spec2Model ----
(***************************************************************************)
(* Repository (ionic-orm): the query-runner lifecycle of persist, remove,  *)
(* query, find and transaction.  Every call of a Repository method is a    *)
(* frame; a frame moves at each await of its async method.  The external   *)
(* collaborators (provider, runner, persister, query builder, the user's   *)
(* work function) answer every asynchronous call with success or failure.  *)
(* The synchronous methods (hasId, the find-query construction) and the    *)
(* SingleTableChild decorator are followed through what they return and    *)
(* what they leave in the metadata args storage.                           *)
(***************************************************************************)
EXTENDS Integers, Sequences, FiniteSets, TLC

\* most frames (method activations) under one call of the caller
MaxFrames == 3
\* longest array handed to persist / remove; its entities are 1, 2, ..
MaxEntities == 2
\* most primary-key columns of an entity; its properties are p1, p2, ..
MaxColumns == 2
\* most keys of a conditions object handed to find
MaxConditions == 2
\* number of classes the decorator may be applied to
MaxClasses == 3
\* most tables added to the metadata args storage by the decorator
MaxTables == 4

VARIABLES
    frames,     \* sequence of frames, one per call of a Repository method
    providers,  \* sequence of QueryRunnerProviders constructed so far
    tables,     \* getMetadataArgsStorage().tables, in order of addition
    returned    \* the last synchronous call with what it returned

vars == <<frames, providers, tables, returned>>

\* what the asynchronous methods leave alone
sync == <<tables, returned>>

\* arrays handed to persist / remove: [e1, .., en], n = 0..MaxEntities
ArrayArgs == {[i \in 1..n |-> i] : n \in 0..MaxEntities}

\* the value a run of the user's work function returns: one per number of
\* calls the run awaited
WorkValue(awaited) == <<"val", awaited>>

NoVal == <<"undefined">>
NoErr == <<"none", 0>>

\* the error raised by step `step` of frame f
Err(step, f) == <<step, f>>

SingleKinds == {"persist", "remove", "query"}
ArrayKinds == {"persistAll", "removeAll"}
FindKinds == {"find", "findOne", "findAndCount", "findOneById"}

---------------------------------------------------------------------------
(* QueryRunnerProvider: provide / release / releaseReused.                 *)

\* provide() on provider p: the runner it hands out.  A provider built with
\* the flag reuses its single runner; any other provider creates a runner
\* per call.  Runners are numbered <<provider, n>>.
ProvideRunner(p, f) ==
    IF providers[p].flag
    THEN <<p, 0>>
    ELSE <<p, f>>

NoRunner == <<0, 0>>

---------------------------------------------------------------------------
(* Frames.                                                                 *)

\* kind    the method called            self    this.queryRunnerProvider (0: none)
\* arg     its argument                 parent  the frame that awaits it (0: caller)
\* pc      the await it is suspended at prov    the local queryRunnerProvider
\* runner  the local queryRunner        scoped  provider of transactionRepository
\* script  what work did so far         err/ret pending exception / return value
\* outcome, value  how the promise settled
\* calls   the calls issued on collaborators, in order
\* raised  the errors the steps of the call raised, in order
NewFrame(kind, self, arg, parent, prov, pc, calls) ==
    [kind |-> kind, self |-> self, arg |-> arg, parent |-> parent,
     pc |-> pc, prov |-> prov, runner |-> NoRunner, scoped |-> 0,
     script |-> <<>>, err |-> NoErr, ret |-> NoVal, outcome |-> "pending",
     value |-> NoVal, calls |-> calls, raised |-> <<>>]

\* ProviderFlag with the flag passed by remove alone
ProviderFlagRemoveOnly(kind) == kind = "remove"

\* `new QueryRunnerProvider(this.connection.driver)` leaves the flag unset;
\* remove and transaction pass true
ProviderFlag(kind) == kind \in {"remove", "transaction"}

\* the delegate a single-entity operation awaits
DelegateOf(kind) ==
    CASE kind = "persist" -> "persister.persist"
      [] kind = "remove" -> "persister.remove"
      [] kind = "query" -> "runner.query"

\* what the delegate resolves with
DelegateValue(kind, arg) ==
    IF kind = "query" THEN <<"rows", arg>> ELSE <<"entity", arg>>

\* `this.queryRunnerProvider || new QueryRunnerProvider(driver, flag)`:
\* the provider the frame uses, and the providers after the expression
LocalProvider(self, provs) == IF self # 0 THEN self ELSE Len(provs) + 1

ProvidersWith(self, kind, f, provs) ==
    IF self # 0 THEN provs
    ELSE Append(provs, [flag |-> ProviderFlag(kind), by |-> f])

\* the synchronous head of persist(entity), remove(entity), query(sql) and
\* transaction(work): choose the provider, call provide(), suspend
Acquire(kind, self, arg, parent, f, provs) ==
    NewFrame(kind, self, arg, parent, LocalProvider(self, provs),
             "awaitProvide",
             IF self # 0
             THEN <<<<"provide", self>>>>
             ELSE <<<<"new", Len(provs) + 1, ProviderFlag(kind)>>,
                    <<"provide", Len(provs) + 1>>>>)

\* an exception e thrown by a step of frame f, remembered in order
Raise(fr, f, e) == [fr EXCEPT ![f].raised = Append(@, e)]

\* a call the frame issues on a collaborator: <<name, target, ..>>
Issue(fr, f, call) == [fr EXCEPT ![f].calls = Append(@, call)]

\* the catch block of transaction (lines 345-347): rollbackTransaction is
\* called with err pending
Catch(fr, t, e) ==
    [Issue(fr, t, <<"rollbackTransaction", fr[t].runner>>) EXCEPT
        ![t].err = e, ![t].ret = NoVal, ![t].pc = "awaitRollback"]

\* the i-th single-entity call of the array call p (Array.map, in order)
ChildOf(p, i) == p + i

\* Promise.all over the single-entity calls of p, all of them resolved
AllResolved(fr, p) ==
    \A i \in 1..Len(fr[p].arg) : fr[ChildOf(p, i)].outcome = "resolved"

\* AllValue with the results gathered last element first
AllValueReversed(fr, p) ==
    <<"list", [i \in 1..Len(fr[p].arg) |->
                 fr[ChildOf(p, Len(fr[p].arg) + 1 - i)].value]>>

AllValue(fr, p) ==
    <<"list", [i \in 1..Len(fr[p].arg) |-> fr[ChildOf(p, i)].value]>>

\* Settle with Promise.all cancelling the calls still pending when it
\* rejects: they settle at once, whatever they hold
RECURSIVE SettleCancelling(_, _, _, _)
SettleCancelling(fr, f, outcome, value) ==
    LET done == [fr EXCEPT ![f].pc = "done", ![f].outcome = outcome,
                           ![f].value = value]
        p == fr[f].parent
        cancelled == [g \in DOMAIN done |->
                        IF done[g].parent = p /\ done[g].outcome = "pending"
                        THEN [done[g] EXCEPT !.pc = "done",
                                             !.outcome = "rejected",
                                             !.value = value]
                        ELSE done[g]]
    IN  IF p = 0 THEN done
        ELSE IF done[p].kind \in ArrayKinds
        THEN IF done[p].outcome # "pending" THEN done
             ELSE IF outcome = "rejected"
                  THEN SettleCancelling(cancelled, p, "rejected", value)
             ELSE IF AllResolved(done, p)
                  THEN SettleCancelling(done, p, "resolved", AllValue(done, p))
             ELSE done
        ELSE IF outcome = "resolved"
             THEN [done EXCEPT ![p].pc = "work"]
             ELSE Catch(Raise(done, p, value), p, value)

\* frame f settles with (outcome, value); whoever awaits it continues:
\* Promise.all of an array call, or the work function of a transaction
RECURSIVE Settle(_, _, _, _)
Settle(fr, f, outcome, value) ==
    LET done == [fr EXCEPT ![f].pc = "done", ![f].outcome = outcome,
                           ![f].value = value]
        p == fr[f].parent
    IN  IF p = 0 THEN done
        ELSE IF done[p].kind \in ArrayKinds
        THEN IF done[p].outcome # "pending" THEN done
             ELSE IF outcome = "rejected"
                  THEN Settle(done, p, "rejected", value)
             ELSE IF AllResolved(done, p)
                  THEN Settle(done, p, "resolved", AllValue(done, p))
             ELSE done
        ELSE IF outcome = "resolved"
             THEN [done EXCEPT ![p].pc = "work"]
             ELSE Catch(Raise(done, p, value), p, value)

\* Finish that drops the pending exception
FinishSwallowing(fr, f) ==
    Settle(fr, f, "resolved", fr[f].ret)

\* the end of an async method after its finally block ran without
\* throwing: the pending exception is rethrown, else the value is returned
Finish(fr, f) ==
    IF fr[f].err # NoErr
    THEN Settle(fr, f, "rejected", fr[f].err)
    ELSE Settle(fr, f, "resolved", fr[f].ret)

\* the finally block of every method: release(queryRunner) is called
Finally(fr, f) ==
    [Issue(fr, f, <<"release", fr[f].prov, fr[f].runner>>) EXCEPT
        ![f].pc = "awaitRelease"]

---------------------------------------------------------------------------
(* Calls of the Repository methods.  Started gives the frames and the      *)
(* providers once the synchronous head of the method has run.              *)

\* createQueryBuilder (lines 69-73): the QueryBuilder is handed the
\* connection alone, so the provider it is bound to is none (0), whatever
\* provider the Repository holds
QueryBuilderProvider(self) == 0

\* what the find-family method asks of the query builder
FetchOf(kind) ==
    CASE kind = "find" -> "getResults"
      [] kind = "findAndCount" -> "getResultsAndCount"
      [] kind = "findOne" -> "getSingleResult"
      [] kind = "findOneById" -> "getSingleResult"

\* find / findOne / findAndCount / findOneById: build the query, fetch
FindFrame(kind, self, arg, parent) ==
    NewFrame(kind, self, arg, parent, QueryBuilderProvider(self),
             "awaitFetch",
             <<<<"createQueryBuilder", QueryBuilderProvider(self)>>,
               <<FetchOf(kind)>>>>)

\* persist(entities) / remove(entities): Array.map starts the single-entity
\* call of every element, in order, then Promise.all awaits them
RECURSIVE MapSingle(_, _, _, _, _, _)
MapSingle(fr, provs, kind, self, arg, p) ==
    LET i == Len(fr) - p + 1
        f == Len(fr) + 1
    IN  IF i > Len(arg) THEN [frames |-> fr, providers |-> provs]
        ELSE MapSingle(
                Append(fr, Acquire(kind, self, arg[i], p, f, provs)),
                ProvidersWith(self, kind, f, provs), kind, self, arg, p)

SingleOf(kind) == IF kind = "persistAll" THEN "persist" ELSE "remove"

Started(fr, provs, kind, self, arg, parent) ==
    LET f == Len(fr) + 1
    IN  CASE kind \in SingleKinds \cup {"transaction"} ->
                [frames |-> Append(fr, Acquire(kind, self, arg, parent, f, provs)),
                 providers |-> ProvidersWith(self, kind, f, provs)]
          [] kind \in ArrayKinds ->
                LET all == NewFrame(kind, self, arg, parent, 0, "awaitAll", <<>>)
                    m == MapSingle(Append(fr, all), provs, SingleOf(kind),
                                   self, arg, f)
                IN  IF Len(arg) = 0
                    THEN [m EXCEPT !.frames =
                            Settle(@, f, "resolved", AllValue(@, f))]
                    ELSE m
          [] kind \in FindKinds ->
                [frames |-> Append(fr, FindFrame(kind, self, arg, parent)),
                 providers |-> provs]

\* frames a call of `kind` with argument arg takes
FramesOf(kind, arg) == IF kind \in ArrayKinds THEN 1 + Len(arg) ELSE 1

ArgsOf(kind) ==
    CASE kind \in ArrayKinds -> ArrayArgs
      [] OTHER -> {1}

Kinds == SingleKinds \cup ArrayKinds \cup FindKinds \cup {"transaction"}

\* the caller constructs a Repository, without a provider or with a
\* provider it built itself (flag as the caller chose), and calls a method
\* of it; a behaviour follows this one call and every call made beneath it
Call(kind, given, flag, arg) ==
    /\ frames = <<>>
    /\ providers = <<>>
    /\ given \/ ~flag
    /\ FramesOf(kind, arg) <= MaxFrames
    /\ LET mine == IF given THEN <<[flag |-> flag, by |-> 0]>> ELSE <<>>
           s == Started(frames, mine, kind, IF given THEN 1 ELSE 0, arg, 0)
       IN  /\ frames' = s.frames
           /\ providers' = s.providers

Pending(f, pc) == f \in DOMAIN frames /\ frames[f].pc = pc

---------------------------------------------------------------------------
(* persist(entity), remove(entity), query(sql): lines 146-166, 181-196,    *)
(* 319-328.                                                                *)

\* Provided with the scoped repository constructed without the provider
ProvidedUnscoped(f, ok) ==
    /\ Pending(f, "awaitProvide")
    /\ UNCHANGED providers
    /\ frames' =
        IF ~ok
        THEN Settle(Raise(frames, f, Err("provide", f)), f, "rejected",
                    Err("provide", f))
        ELSE LET got == [frames EXCEPT
                            ![f].runner = ProvideRunner(frames[f].prov, f)]
             IN  IF frames[f].kind = "transaction"
                 THEN [Issue(got, f, <<"beginTransaction", got[f].runner>>) EXCEPT
                          ![f].scoped = 0,
                          ![f].pc = "awaitBegin"]
                 ELSE [Issue(got, f, <<DelegateOf(frames[f].kind),
                                       got[f].runner>>) EXCEPT
                          ![f].pc = "awaitDelegate"]

\* Provided with provide() inside the try block: a failed provide() runs
\* the finally block
ProvidedInsideTry(f, ok) ==
    /\ Pending(f, "awaitProvide")
    /\ UNCHANGED providers
    /\ frames' =
        IF ~ok
        THEN Finally([Raise(frames, f, Err("provide", f)) EXCEPT
                        ![f].err = Err("provide", f)], f)
        ELSE LET got == [frames EXCEPT
                            ![f].runner = ProvideRunner(frames[f].prov, f)]
             IN  IF frames[f].kind = "transaction"
                 THEN [Issue(got, f, <<"beginTransaction", got[f].runner>>) EXCEPT
                          ![f].scoped = frames[f].prov,
                          ![f].pc = "awaitBegin"]
                 ELSE [Issue(got, f, <<DelegateOf(frames[f].kind),
                                       got[f].runner>>) EXCEPT
                          ![f].pc = "awaitDelegate"]

\* `await queryRunnerProvider.provide()` answers
Provided(f, ok) ==
    /\ Pending(f, "awaitProvide")
    /\ UNCHANGED providers
    /\ frames' =
        IF ~ok
        THEN Settle(Raise(frames, f, Err("provide", f)), f, "rejected",
                    Err("provide", f))
        ELSE LET got == [frames EXCEPT
                            ![f].runner = ProvideRunner(frames[f].prov, f)]
             IN  IF frames[f].kind = "transaction"
                 THEN [Issue(got, f, <<"beginTransaction", got[f].runner>>) EXCEPT
                          ![f].scoped = frames[f].prov,
                          ![f].pc = "awaitBegin"]
                 ELSE [Issue(got, f, <<DelegateOf(frames[f].kind),
                                       got[f].runner>>) EXCEPT
                          ![f].pc = "awaitDelegate"]

\* Delegated that calls a failed delegate a second time
DelegatedRetry(f, ok) ==
    /\ Pending(f, "awaitDelegate")
    /\ UNCHANGED providers
    /\ frames' =
        IF ok
        THEN Finally([frames EXCEPT ![f].ret =
                        DelegateValue(frames[f].kind, frames[f].arg)], f)
        ELSE IF Len(frames[f].calls) <= 3
        THEN Issue(frames, f, <<DelegateOf(frames[f].kind), frames[f].runner>>)
        ELSE Finally([Raise(frames, f, Err("delegate", f)) EXCEPT
                        ![f].err = Err("delegate", f)], f)

\* Delegated without the finally block: a failed delegate rejects at once
DelegatedNoFinally(f, ok) ==
    /\ Pending(f, "awaitDelegate")
    /\ UNCHANGED providers
    /\ frames' =
        IF ok
        THEN Finally([frames EXCEPT ![f].ret =
                        DelegateValue(frames[f].kind, frames[f].arg)], f)
        ELSE Settle(Raise(frames, f, Err("delegate", f)), f, "rejected",
                    Err("delegate", f))

\* the delegate (persister.persist, persister.remove, runner.query) answers;
\* the finally block then calls release(queryRunner)
Delegated(f, ok) ==
    /\ Pending(f, "awaitDelegate")
    /\ UNCHANGED providers
    /\ frames' =
        IF ok
        THEN Finally([frames EXCEPT ![f].ret =
                        DelegateValue(frames[f].kind, frames[f].arg)], f)
        ELSE Finally([Raise(frames, f, Err("delegate", f)) EXCEPT
                        ![f].err = Err("delegate", f)], f)

\* the repository built its own provider (line 351)
Owns(fr, f) == fr[f].kind = "transaction" /\ fr[f].self = 0

\* `await queryRunnerProvider.release(queryRunner)` answers
Released(f, ok) ==
    /\ Pending(f, "awaitRelease")
    /\ UNCHANGED providers
    /\ frames' =
        IF ~ok
        THEN Settle(Raise(frames, f, Err("release", f)), f, "rejected",
                    Err("release", f))
        ELSE IF Owns(frames, f)
        THEN [Issue(frames, f, <<"releaseReused", frames[f].prov>>) EXCEPT
                 ![f].pc = "awaitReleaseReused"]
        ELSE Finish(frames, f)

\* `await queryRunnerProvider.releaseReused()` answers
ReleasedReused(f, ok) ==
    /\ Pending(f, "awaitReleaseReused")
    /\ UNCHANGED providers
    /\ frames' =
        IF ~ok
        THEN Settle(Raise(frames, f, Err("releaseReused", f)), f, "rejected",
                    Err("releaseReused", f))
        ELSE Finish(frames, f)

\* the query builder answers a find-family call
Fetched(f, ok) ==
    /\ Pending(f, "awaitFetch")
    /\ UNCHANGED providers
    /\ frames' =
        IF ok
        THEN Settle(frames, f, "resolved", <<"found", frames[f].arg>>)
        ELSE Settle(Raise(frames, f, Err("fetch", f)), f, "rejected",
                    Err("fetch", f))

---------------------------------------------------------------------------
(* transaction(work): lines 334-354.                                       *)

\* `await queryRunner.beginTransaction()` answers; work is called with the
\* scoped repository
Begun(t, ok) ==
    /\ Pending(t, "awaitBegin")
    /\ UNCHANGED providers
    /\ frames' =
        IF ok
        THEN [Issue(frames, t, <<"work", frames[t].scoped>>) EXCEPT
                 ![t].pc = "work"]
        ELSE Catch(Raise(frames, t, Err("begin", t)), t, Err("begin", t))

\* work calls a method of the scoped repository and awaits it
WorkCall(t, kind, arg) ==
    /\ Pending(t, "work")
    /\ Len(frames) + FramesOf(kind, arg) <= MaxFrames
    /\ LET s == Started([frames EXCEPT ![t].pc = "awaitNested",
                                       ![t].script = Append(@, kind)],
                        providers, kind, frames[t].scoped, arg, t)
       IN  /\ frames' = s.frames
           /\ providers' = s.providers

\* WorkReturn that leaves the commit out
WorkReturnNoCommit(t) ==
    /\ Pending(t, "work")
    /\ UNCHANGED providers
    /\ frames' = Finally([frames EXCEPT
                             ![t].ret = WorkValue(Len(frames[t].script)),
                             ![t].script = Append(@, "return")], t)

\* work returns its value: commitTransaction is called
WorkReturn(t) ==
    /\ Pending(t, "work")
    /\ UNCHANGED providers
    /\ frames' = [Issue(frames, t, <<"commitTransaction", frames[t].runner>>)
                    EXCEPT
                    ![t].ret = WorkValue(Len(frames[t].script)),
                    ![t].pc = "awaitCommit",
                    ![t].script = Append(@, "return")]

\* WorkThrow without the catch block: no rollback before the finally block
WorkThrowNoRollback(t) ==
    /\ Pending(t, "work")
    /\ UNCHANGED providers
    /\ frames' = Finally([Raise([frames EXCEPT
                                    ![t].script = Append(@, "throw")],
                                t, Err("work", t))
                             EXCEPT ![t].err = Err("work", t)], t)

\* work throws
WorkThrow(t) ==
    /\ Pending(t, "work")
    /\ UNCHANGED providers
    /\ frames' = Catch(Raise([frames EXCEPT ![t].script = Append(@, "throw")],
                             t, Err("work", t)), t, Err("work", t))

\* Committed with the commit outside the try block: a failed commit goes
\* straight to the finally block
CommittedNoCatch(t, ok) ==
    /\ Pending(t, "awaitCommit")
    /\ UNCHANGED providers
    /\ frames' =
        IF ok THEN Finally(frames, t)
        ELSE Finally([Raise(frames, t, Err("commit", t)) EXCEPT
                        ![t].err = Err("commit", t)], t)

\* `await queryRunner.commitTransaction()` answers
Committed(t, ok) ==
    /\ Pending(t, "awaitCommit")
    /\ UNCHANGED providers
    /\ frames' =
        IF ok THEN Finally(frames, t)
        ELSE Catch(Raise(frames, t, Err("commit", t)), t, Err("commit", t))

\* RolledBack with the rollback failure suppressed: err is rethrown
RolledBackSuppressed(t, ok) ==
    /\ Pending(t, "awaitRollback")
    /\ UNCHANGED providers
    /\ frames' =
        IF ok THEN Finally(frames, t)
        ELSE Finally(Raise(frames, t, Err("rollback", t)), t)

\* `await queryRunner.rollbackTransaction()` answers; `throw err` follows
RolledBack(t, ok) ==
    /\ Pending(t, "awaitRollback")
    /\ UNCHANGED providers
    /\ frames' =
        IF ok THEN Finally(frames, t)
        ELSE Finally([Raise(frames, t, Err("rollback", t)) EXCEPT
                        ![t].err = Err("rollback", t)], t)

---------------------------------------------------------------------------

Init ==
    /\ frames = <<>>
    /\ providers = <<>>
    /\ tables = <<>>
    /\ returned = [call |-> "none"]

Next ==
    \/ \E kind \in Kinds, given \in BOOLEAN, flag \in BOOLEAN :
          \E arg \in ArgsOf(kind) : Call(kind, given, flag, arg) /\ UNCHANGED sync
    \/ \E f \in 1..MaxFrames, ok \in BOOLEAN : Provided(f, ok) /\ UNCHANGED sync
    \/ \E f \in 1..MaxFrames, ok \in BOOLEAN : Delegated(f, ok) /\ UNCHANGED sync
    \/ \E f \in 1..MaxFrames, ok \in BOOLEAN : Released(f, ok) /\ UNCHANGED sync
    \/ \E f \in 1..MaxFrames, ok \in BOOLEAN : ReleasedReused(f, ok) /\ UNCHANGED sync
    \/ \E f \in 1..MaxFrames, ok \in BOOLEAN : Fetched(f, ok) /\ UNCHANGED sync
    \/ \E t \in 1..MaxFrames, ok \in BOOLEAN : Begun(t, ok) /\ UNCHANGED sync
    \/ \E t \in 1..MaxFrames, kind \in Kinds :
          \E arg \in ArgsOf(kind) : WorkCall(t, kind, arg) /\ UNCHANGED sync
    \/ \E t \in 1..MaxFrames : WorkReturn(t) /\ UNCHANGED sync
    \/ \E t \in 1..MaxFrames : WorkThrow(t) /\ UNCHANGED sync
    \/ \E t \in 1..MaxFrames, ok \in BOOLEAN : Committed(t, ok) /\ UNCHANGED sync
    \/ \E t \in 1..MaxFrames, ok \in BOOLEAN : RolledBack(t, ok) /\ UNCHANGED sync

Spec == Init /\ [][Next]_vars

---------------------------------------------------------------------------
(* Values, entities and metadata of the synchronous methods.  A string is  *)
(* the sequence of its characters.                                         *)

Null == <<"null">>
Str(chars) == <<"string", chars>>
Num(n) == <<"number", n>>

\* the values an entity property or an id may hold (undefined is NoVal)
Scalars == {Null, NoVal, Str(<<>>), Str(<<"a">>), Num(0)}

\* the name of the i-th property of the entity class
PropertyName(i) == <<"p", ToString(i)>>

Properties == {PropertyName(i) : i \in 1..MaxColumns}

\* an object: its own properties and the ones it inherits
Object(own, proto) == <<"object", own, proto>>

IsObject(v) == v[1] = "object"

\* the prototypes of the entities: a bare one, and one that defines every
\* property of the class
Prototypes == {<<>>, [k \in Properties |-> Str(<<"a">>)]}

Entities ==
    {Null, NoVal} \cup
    {Object(own, proto) :
        own \in UNION {[S -> Scalars] : S \in SUBSET Properties},
        proto \in Prototypes}

\* !!v
Truthy(v) == v \notin {Null, NoVal} /\ v # Str(<<>>) /\ v # Num(0)

\* object.hasOwnProperty(key)
HasOwnProperty(object, key) == key \in DOMAIN object[2]

\* object[key]: the own property, else the inherited one, else undefined
Get(object, key) ==
    IF key \in DOMAIN object[2] THEN object[2][key]
    ELSE IF key \in DOMAIN object[3] THEN object[3][key]
    ELSE NoVal

\* a column of the entity: the property it maps and its name in the
\* table, which is the property's name unless the column was renamed
Column(i, renamed) ==
    [propertyName |-> PropertyName(i),
     name |-> IF renamed THEN <<"c", ToString(i)>> ELSE PropertyName(i)]

\* the metadata a Repository is constructed with: primary columns of the
\* properties p1..pn, no parent-id column or the one of property p0
Metadatas ==
    {[target |-> "Entity", table |-> [name |-> <<"t">>],
      primaryColumns |-> primary, parentIdColumns |-> parent] :
        primary \in UNION {{[i \in 1..n |-> Column(i, renamed[i])] :
                               renamed \in [1..n -> BOOLEAN]} :
                            n \in 0..MaxColumns},
        parent \in {<<>>} \cup {<<Column(0, renamed)>> :
                                   renamed \in BOOLEAN}}

\* what a synchronous call leaves behind: the method, the metadata of the
\* Repository, the arguments, the value returned and the calls made on
\* collaborators meanwhile
Returned(call, metadata, args, value, calls) ==
    [call |-> call, metadata |-> metadata, args |-> args, value |-> value,
     calls |-> calls]

---------------------------------------------------------------------------
(* hasId: lines 43-64.                                                     *)

\* the test of one primary column with inherited properties counted too
PrimaryColumnSetInherited(entity, primaryColumn) ==
    LET columnName == primaryColumn.propertyName
    IN  /\ Truthy(entity)
        /\ Get(entity, columnName) # Null
        /\ Get(entity, columnName) # NoVal
        /\ Get(entity, columnName) # Str(<<>>)

\* the callback of `every` (lines 56-62)
PrimaryColumnSet(entity, primaryColumn) ==
    LET columnName == primaryColumn.propertyName
    IN  /\ Truthy(entity)
        /\ HasOwnProperty(entity, columnName)
        /\ Get(entity, columnName) # Null
        /\ Get(entity, columnName) # NoVal
        /\ Get(entity, columnName) # Str(<<>>)

\* Array.every from the i-th column on: false at the first column that
\* fails the test, true when none is left
RECURSIVE Every(_, _, _)
Every(primaryColumns, i, entity) ==
    IF i > Len(primaryColumns) THEN TRUE
    ELSE IF ~PrimaryColumnSet(entity, primaryColumns[i]) THEN FALSE
    ELSE Every(primaryColumns, i + 1, entity)

hasId(metadata, entity) == Every(metadata.primaryColumns, 1, entity)

\* no synchronous call was made yet: a behaviour follows one call of a
\* synchronous method
Fresh == returned.call = "none"

\* repository.hasId(entity) on a Repository of the metadata
HasId(metadata, entity) ==
    /\ returned' = Returned("hasId", metadata, <<entity>>,
                            hasId(metadata, entity), <<>>)
    /\ UNCHANGED <<frames, providers, tables>>

---------------------------------------------------------------------------
(* createQueryBuilder and createFindQueryBuilder: lines 69-73, 364-385.    *)

\* a FindOptions object: its alias and a pagination setting
FindOptions(alias, maxResults) == <<"findOptions", alias, maxResults>>

FindOptionsSet ==
    {FindOptions(alias, maxResults) :
        alias \in {<<"u">>, <<"v">>}, maxResults \in {NoVal, Num(10)}}

\* FindOptionsUtils.isFindOptions: the type predicate
IsFindOptions(v) == v[1] = "findOptions"

\* a plain object: its keys in the order Object.keys lists them, each with
\* its value
Plain(pairs) == <<"plain", pairs>>

ConditionKeys == {<<"n">>, <<"m">>, <<"u", ".", "n">>}

ConditionsSet ==
    {Plain(pairs) :
        pairs \in UNION {{ps \in [1..n -> ConditionKeys \X {Str(<<"a">>), Num(0)}] :
                             \A i, j \in 1..n : i # j => ps[i][1] # ps[j][1]} :
                          n \in 0..MaxConditions}}

\* String.indexOf for one character, from position i on (-1: not found;
\* positions count from 0)
RECURSIVE IndexFrom(_, _, _)
IndexFrom(chars, c, i) ==
    IF i > Len(chars) THEN -1
    ELSE IF chars[i] = c THEN i - 1
    ELSE IndexFrom(chars, c, i + 1)

IndexOf(chars, c) == IndexFrom(chars, c, 1)

\* `new QueryBuilder(connection).select(alias).from(target, alias)`
CreateQueryBuilder(metadata, alias) ==
    [select |-> alias, from |-> <<metadata.target, alias>>, wheres |-> <<>>,
     parameters |-> <<>>, options |-> NoVal]

\* line 368 with the table name taken whatever the options say
AliasOfTable(metadata, findOptions) == metadata.table.name

\* line 368: the alias of the query
AliasOf(metadata, findOptions) ==
    IF findOptions # NoVal THEN findOptions[2] ELSE metadata.table.name

\* line 378 with every key qualified
ColumnRefQualified(alias, key) == alias \o <<".">> \o key

\* line 378: the column a condition key refers to
ColumnRef(alias, key) ==
    IF IndexOf(key, ".") = -1 THEN alias \o <<".">> \o key ELSE key

\* line 379: the predicate of a condition key
Predicate(alias, key) == ColumnRef(alias, key) \o <<"=", ":">> \o key

\* lines 377-380: forEach over Object.keys(conditions), from the i-th on
RECURSIVE AndWhereFrom(_, _, _)
AndWhereFrom(qb, pairs, i) ==
    IF i > Len(pairs) THEN qb
    ELSE AndWhereFrom(
            [qb EXCEPT !.wheres = Append(@, Predicate(qb.select, pairs[i][1]))],
            pairs, i + 1)

\* QueryBuilder.addParameters(conditions)
AddParameters(qb, pairs) ==
    [qb EXCEPT !.parameters =
        [k \in DOMAIN @ \cup {pairs[i][1] : i \in DOMAIN pairs} |->
            IF \E i \in DOMAIN pairs : pairs[i][1] = k
            THEN (CHOOSE v \in {pairs[i][2] : i \in DOMAIN pairs} :
                     \E i \in DOMAIN pairs : pairs[i] = <<k, v>>)
            ELSE @[k]]]

\* createFindQueryBuilder(conditionsOrFindOptions, options)
CreateFindQueryBuilder(metadata, conditionsOrFindOptions, options) ==
    LET isOptions == IF conditionsOrFindOptions = NoVal THEN FALSE
                     ELSE IsFindOptions(conditionsOrFindOptions)
        findOptions == IF isOptions THEN conditionsOrFindOptions ELSE options
        conditions == IF isOptions THEN NoVal ELSE conditionsOrFindOptions
        alias == AliasOf(metadata, findOptions)
        qb == CreateQueryBuilder(metadata, alias)
        applied == IF findOptions # NoVal
                   THEN [qb EXCEPT !.options = findOptions]
                   ELSE qb
    IN  IF conditions # NoVal
        THEN AddParameters(AndWhereFrom(applied, conditions[2], 1),
                           conditions[2])
        ELSE applied

\* the calls createFindQueryBuilder makes on the query builder
BuilderCalls(qb) ==
    <<<<"select", qb.select>>, <<"from", qb.from[1], qb.from[2]>>>>
    \o (IF qb.options # NoVal
        THEN <<<<"applyOptionsToQueryBuilder", qb.options>>>> ELSE <<>>)
    \o [i \in DOMAIN qb.wheres |-> <<"andWhere", qb.wheres[i]>>]

\* find / findOne / findAndCount (conditionsOrFindOptions, options): the
\* query built and what is asked of it
Find(kind, metadata, conditionsOrFindOptions, options) ==
    /\ LET qb == CreateFindQueryBuilder(metadata, conditionsOrFindOptions,
                                        options)
       IN  returned' = Returned(kind, metadata,
                                <<conditionsOrFindOptions, options>>,
                                [qb |-> qb, fetch |-> FetchOf(kind)],
                                BuilderCalls(qb))
    /\ UNCHANGED <<frames, providers, tables>>

---------------------------------------------------------------------------
(* findOneById: lines 296-314.                                             *)

\* metadata.hasMultiplePrimaryKeys: the entity has a composite key
HasMultiplePrimaryKeys(metadata) == Len(metadata.primaryColumns) > 1

\* the ids handed to findOneById: a scalar for a single key, for a
\* composite key an object holding a value under every property of the
\* columns
IdKeys == Properties \cup {PropertyName(0)}

IdsOf(metadata) ==
    IF HasMultiplePrimaryKeys(metadata)
    THEN {Object(own, <<>>) : own \in [IdKeys -> {Num(1), Str(<<"a">>)}]}
    ELSE Scalars

\* conditions[key] = value: a key the object holds keeps its place
SetKey(pairs, key, value) ==
    IF \E i \in DOMAIN pairs : pairs[i][1] = key
    THEN [i \in DOMAIN pairs |->
             IF pairs[i][1] = key THEN <<key, value>> ELSE pairs[i]]
    ELSE Append(pairs, <<key, value>>)

\* primaryColumns.forEach (lines 299-301), from the i-th column on
RECURSIVE PrimaryConditions(_, _, _, _)
PrimaryConditions(pairs, columns, id, i) ==
    IF i > Len(columns) THEN pairs
    ELSE PrimaryConditions(
            SetKey(pairs, columns[i].name, Get(id, columns[i].name)),
            columns, id, i + 1)

\* parentIdColumns.forEach (lines 302-304), from the i-th column on
RECURSIVE ParentConditions(_, _, _, _)
ParentConditions(pairs, columns, id, i) ==
    IF i > Len(columns) THEN pairs
    ELSE ParentConditions(
            SetKey(pairs, columns[i].name, Get(id, columns[i].propertyName)),
            columns, id, i + 1)

\* the conditions object findOneById fills (lines 297-311)
IdConditions(metadata, id) ==
    IF HasMultiplePrimaryKeys(metadata)
    THEN ParentConditions(
            PrimaryConditions(<<>>, metadata.primaryColumns, id, 1),
            metadata.parentIdColumns, id, 1)
    ELSE IF Len(metadata.primaryColumns) > 0
    THEN SetKey(<<>>, metadata.primaryColumns[1].name, id)
    ELSE IF Len(metadata.parentIdColumns) > 0
    THEN SetKey(<<>>, metadata.parentIdColumns[1].name, id)
    ELSE <<>>

\* findOneById(id, options): the conditions, the query built from them
\* and what is asked of it
FindOneById(metadata, id, options) ==
    /\ LET conditions == Plain(IdConditions(metadata, id))
           qb == CreateFindQueryBuilder(metadata, conditions, options)
       IN  returned' = Returned("findOneById", metadata, <<id, options>>,
                                [qb |-> qb, fetch |-> FetchOf("findOneById"),
                                 conditions |-> conditions],
                                BuilderCalls(qb))
    /\ UNCHANGED <<frames, providers, tables>>

---------------------------------------------------------------------------
(* The synchronous methods, called one after the other.                    *)

SyncNext ==
    \/ /\ Fresh
       /\ \E metadata \in Metadatas, entity \in Entities :
             HasId(metadata, entity)
    \/ /\ Fresh
       /\ \E kind \in {"find", "findOne", "findAndCount"},
             metadata \in Metadatas,
             a \in {NoVal} \cup ConditionsSet \cup FindOptionsSet,
             options \in {NoVal} \cup FindOptionsSet :
             Find(kind, metadata, a, options)
    \/ /\ Fresh
       /\ \E metadata \in Metadatas, options \in {NoVal} \cup FindOptionsSet :
             \E id \in IdsOf(metadata) : FindOneById(metadata, id, options)

SyncSpec == Init /\ [][SyncNext]_vars

---------------------------------------------------------------------------
(* SingleTableChild: src/decorator/tables/SingleTableChild.ts.             *)

Classes == {<<"class", i>> : i \in 1..MaxClasses}

\* the args with the name of the table taken from the class
SingleTableChildArgsNamed(target) ==
    [target |-> target, name |-> target, type |-> "single-table-child",
     orderBy |-> NoVal]

\* the TableMetadataArgs the decorator builds (lines 9-14)
SingleTableChildArgs(target) ==
    [target |-> target, name |-> NoVal, type |-> "single-table-child",
     orderBy |-> NoVal]

\* getMetadataArgsStorage().tables.add(args): the collection with args as
\* its last item
Add(collection, args) == Append(collection, args)

\* what the storage may hold when the decorator runs: nothing, or the table
\* another decorator registered for a class
Registered ==
    {<<>>, <<[target |-> <<"class", 1>>, name |-> Str(<<"t">>),
             type |-> "regular", orderBy |-> NoVal]>>}

\* @SingleTableChild() applied to the class target
SingleTableChild(target) ==
    /\ Len(tables) < MaxTables
    /\ tables' = Add(tables, SingleTableChildArgs(target))
    /\ UNCHANGED <<frames, providers, returned>>

DecoratorInit ==
    /\ frames = <<>>
    /\ providers = <<>>
    /\ tables \in Registered
    /\ returned = [call |-> "none"]

DecoratorNext == \E target \in Classes : SingleTableChild(target)

DecoratorSpec == DecoratorInit /\ [][DecoratorNext]_vars

---------------------------------------------------------------------------
(* Properties.                                                             *)

Done(f) == frames[f].pc = "done"

\* where frame f issued the call `name`
Places(f, name) ==
    {i \in DOMAIN frames[f].calls : frames[f].calls[i][1] = name}

Times(f, name) == Cardinality(Places(f, name))

\* the names of the calls frame f issued, in order
Names(f) == [i \in DOMAIN frames[f].calls |-> frames[f].calls[i][1]]

\* the calls of f but the construction of its provider
Drop(seq, name) == SelectSeq(seq, LAMBDA n : n # name)

\* step `step` of frame f itself failed
Failed(f, step) ==
    \E i \in DOMAIN frames[f].raised : frames[f].raised[i] = Err(step, f)

Acquired(f) == frames[f].runner # NoRunner

\* C1: a single-entity persist, remove or query that was given a runner
\* calls release(runner) on the provider that gave it, once and no more,
\* after the delegate, whether the delegate succeeded or threw.
C1_ReleaseOncePerAcquisition ==
    \A f \in DOMAIN frames :
        frames[f].kind \in SingleKinds =>
            /\ Times(f, "release") <= 1
            /\ \A i \in Places(f, "release") :
                  /\ Acquired(f)
                  /\ frames[f].calls[i] =
                        <<"release", frames[f].prov, frames[f].runner>>
                  /\ frames[f].runner[1] = frames[f].prov
                  /\ \E j \in 1..(i - 1) :
                        frames[f].calls[j] = <<"provide", frames[f].prov>>
                  /\ \E j \in 1..(i - 1) :
                        frames[f].calls[j][1] = DelegateOf(frames[f].kind)
            /\ (Acquired(f) /\ Done(f)) => Times(f, "release") = 1

C1_Witness ==
    \E f \in DOMAIN frames :
        /\ frames[f].kind = "persist"
        /\ Done(f)
        /\ frames[f].raised = <<Err("delegate", f)>>
        /\ Times(f, "release") = 1

\* the transaction whose beginTransaction, work and commitTransaction all
\* succeeded
Committing(t) ==
    /\ frames[t].kind = "transaction"
    /\ Done(t)
    /\ frames[t].script # <<>>
    /\ frames[t].script[Len(frames[t].script)] = "return"
    /\ ~Failed(t, "commit")

SuccessOrder(t) ==
    <<"provide", "beginTransaction", "work", "commitTransaction", "release">>
        \o (IF Owns(frames, t) THEN <<"releaseReused">> ELSE <<>>)

CleanupFailed(f) ==
    Failed(f, "release") \/ Failed(f, "releaseReused")

RECURSIVE Under(_, _)
Under(f, t) ==
    IF f = t THEN TRUE
    ELSE IF f = 0 THEN FALSE
    ELSE Under(frames[f].parent, t)

\* the release(runner) calls frame f issued against runner r
ReleasesOf(f, r) ==
    Cardinality({i \in Places(f, "release") : frames[f].calls[i][3] = r})

RECURSIVE SumReleases(_, _, _)
SumReleases(n, t, r) ==
    IF n = 0 THEN 0
    ELSE (IF Under(n, t) THEN ReleasesOf(n, r) ELSE 0)
            + SumReleases(n - 1, t, r)

\* the release(runner) calls issued against the runner of t over the whole
\* call t, by t and by every call made beneath it
ReleasesAgainst(t) == SumReleases(Len(frames), t, frames[t].runner)

\* the last error raised in frame f
LastRaised(f) == frames[f].raised[Len(frames[f].raised)]

\* transaction(async repo => { await repo.persist(x); throw E }), settled
PersistThenThrow(t) ==
    /\ frames[t].kind = "transaction"
    /\ Done(t)
    /\ frames[t].script = <<"persist", "throw">>

\* the statement of C3 as written: rollback, no commit, the call rejects
\* with E, and one release(runner) in all against the transaction's runner.
C3_Original ==
    \A t \in DOMAIN frames :
        PersistThenThrow(t) =>
            /\ Times(t, "rollbackTransaction") >= 1
            /\ Times(t, "commitTransaction") = 0
            /\ frames[t].outcome = "rejected"
            /\ frames[t].value = Err("work", t)
            /\ ReleasesAgainst(t) = 1

\* C3: when work awaits persist(x) on the scoped repository and then throws
\* E, rollbackTransaction is called once and commitTransaction never; the
\* call rejects, with E when rollback, release and releaseReused succeed and
\* with the error of the last of them to fail otherwise; transaction()
\* itself issues release(runner) once and the nested persist issues its own
\* release of the runner it was handed, so two release calls are issued
\* against the transaction's runner when the provider hands the nested
\* persist that same runner, and one otherwise.
C3_RollbackAndReleases ==
    \A t \in DOMAIN frames :
        PersistThenThrow(t) =>
            /\ Times(t, "rollbackTransaction") = 1
            /\ Times(t, "commitTransaction") = 0
            /\ frames[t].outcome = "rejected"
            /\ frames[t].raised[1] = Err("work", t)
            /\ frames[t].value = LastRaised(t)
            /\ Len(frames[t].raised) = 1 => frames[t].value = Err("work", t)
            /\ Times(t, "release") = 1
            /\ \E c \in DOMAIN frames :
                  /\ frames[c].parent = t
                  /\ frames[c].kind = "persist"
                  /\ frames[c].outcome = "resolved"
                  /\ Times(c, "release") = 1
                  /\ ReleasesAgainst(t) =
                        IF frames[c].runner = frames[t].runner THEN 2 ELSE 1
                  /\ providers[frames[t].prov].by = t =>
                        frames[c].runner = frames[t].runner

C3_Witness ==
    \E t \in DOMAIN frames :
        /\ PersistThenThrow(t)
        /\ Owns(frames, t)
        /\ frames[t].value = Err("work", t)
        /\ ReleasesAgainst(t) = 2

\* work failed with E1 and the rollback then failed with E2
WorkAndRollbackFailed(t) ==
    /\ frames[t].kind = "transaction"
    /\ Done(t)
    /\ Len(frames[t].raised) >= 2
    /\ frames[t].raised[1] \notin
          {Err("provide", t), Err("begin", t), Err("commit", t)}
    /\ frames[t].raised[2] = Err("rollback", t)

\* the statement of C4 as written: the call rejects with E2, after
\* release(runner) was called.
C4_Original ==
    \A t \in DOMAIN frames :
        WorkAndRollbackFailed(t) =>
            /\ frames[t].outcome = "rejected"
            /\ frames[t].value = Err("rollback", t)
            /\ Times(t, "release") = 1

\* C4: when work fails with E1 and rollbackTransaction then fails with E2,
\* E1 is masked and release(runner) is still called, after the rollback and
\* before the call settles; the call rejects with E2 when release and
\* releaseReused succeed, and with the error of the cleanup step that failed
\* otherwise.
C4_RollbackFailureMasks ==
    \A t \in DOMAIN frames :
        WorkAndRollbackFailed(t) =>
            /\ frames[t].outcome = "rejected"
            /\ frames[t].value # frames[t].raised[1]
            /\ frames[t].value = LastRaised(t)
            /\ ~CleanupFailed(t) => frames[t].value = Err("rollback", t)
            /\ CleanupFailed(t) =>
                  /\ Len(frames[t].raised) = 3
                  /\ frames[t].value \in
                        {Err("release", t), Err("releaseReused", t)}
            /\ Times(t, "release") = 1
            /\ \A i \in Places(t, "release") :
                  \E j \in Places(t, "rollbackTransaction") : j < i

C4_Witness ==
    \E t \in DOMAIN frames :
        /\ WorkAndRollbackFailed(t)
        /\ frames[t].raised = <<Err("work", t), Err("rollback", t)>>
        /\ frames[t].value = Err("rollback", t)

\* the transaction whose work function was called, settled
WorkRan(t) ==
    /\ frames[t].kind = "transaction"
    /\ Done(t)
    /\ Times(t, "work") = 1

\* C5: transaction() calls releaseReused() if and only if the Repository was
\* constructed without a provider: there exactly once, after
\* release(runner), whether work succeeded or failed; never on a repository
\* that was given a provider.
C5_ReleaseReusedIffOwner ==
    \A t \in DOMAIN frames :
        WorkRan(t) =>
            IF Owns(frames, t)
            THEN /\ Times(t, "releaseReused") = 1
                 /\ \A i \in Places(t, "releaseReused") :
                       \E j \in Places(t, "release") : j < i
            ELSE Times(t, "releaseReused") = 0

\* the transaction beneath whose work function frame f was called: the
\* nearest transaction above f (0 when there is none)
RECURSIVE Scope(_)
Scope(f) ==
    LET p == frames[f].parent
    IN  IF p = 0 THEN 0
        ELSE IF frames[p].kind = "transaction" THEN p
        ELSE Scope(p)

\* the calls frame f issued on a provider
OnProvider(f) ==
    {i \in DOMAIN frames[f].calls :
        frames[f].calls[i][1] \in {"new", "provide", "release", "releaseReused"}}

\* C6: the repository handed to work is bound to the provider that gave the
\* transaction its runner: every persist, remove, query and nested
\* transaction called on it (the single-entity calls of an array call
\* included) calls provide() and release() on that provider and constructs
\* no QueryRunnerProvider.
C6_ScopedRepositorySharesProvider ==
    /\ \A t \in DOMAIN frames :
          (frames[t].kind = "transaction" /\ Acquired(t)) =>
              /\ frames[t].scoped = frames[t].prov
              /\ frames[t].runner[1] = frames[t].prov
    /\ \A f \in DOMAIN frames :
          (Scope(f) # 0 /\ frames[f].kind \in SingleKinds \cup {"transaction"}) =>
              /\ frames[f].self = frames[Scope(f)].prov
              /\ frames[f].prov = frames[Scope(f)].prov
              /\ Times(f, "provide") = 1
              /\ \A i \in OnProvider(f) :
                    /\ frames[f].calls[i][1] # "new"
                    /\ frames[f].calls[i][2] = frames[Scope(f)].prov
              /\ \A p \in DOMAIN providers : providers[p].by # f

C6_Witness ==
    \E f \in DOMAIN frames :
        /\ Scope(f) # 0
        /\ Scope(Scope(f)) # 0
        /\ frames[f].kind = "remove"
        /\ Done(f)
        /\ Times(f, "release") = 1
        /\ Owns(frames, Scope(Scope(f)))

\* C7: every operation, the find family included, acquires a runner through
\* the provider and releases it before returning; on a Repository that
\* holds a provider the find family runs on that provider.
C7_FindUsesProvider ==
    \A f \in DOMAIN frames :
        /\ (frames[f].kind \in FindKinds \cup SingleKinds \cup {"transaction"}
                /\ frames[f].outcome = "resolved") =>
              /\ Times(f, "provide") = 1
              /\ Times(f, "release") = 1
        /\ (frames[f].kind \in FindKinds /\ frames[f].self # 0) =>
              frames[f].prov = frames[f].self

Children(p) == {ChildOf(p, i) : i \in 1..Len(frames[p].arg)}

IsArrayCall(p) == p \in DOMAIN frames /\ frames[p].kind \in ArrayKinds

\* the step of a pending single-entity call that comes next can be taken
CanProceed(c) ==
    /\ frames[c].pc = "awaitProvide" => ENABLED Provided(c, TRUE)
    /\ frames[c].pc = "awaitDelegate" => ENABLED Delegated(c, TRUE)
    /\ frames[c].pc = "awaitRelease" => ENABLED Released(c, TRUE)

C8_FanOutState ==
    \A p \in DOMAIN frames :
        IsArrayCall(p) =>
            \* every element's call is started, in order, with the array call
            /\ \A i \in 1..Len(frames[p].arg) :
                  /\ ChildOf(p, i) \in DOMAIN frames
                  /\ frames[ChildOf(p, i)].parent = p
                  /\ frames[ChildOf(p, i)].kind = SingleOf(frames[p].kind)
                  /\ frames[ChildOf(p, i)].arg = frames[p].arg[i]
                  /\ Times(ChildOf(p, i), "provide") = 1
            \* the array call is pending exactly while no element rejected
            \* and some element is unsettled
            /\ frames[p].outcome = "pending" <=>
                  /\ \A c \in Children(p) : frames[c].outcome # "rejected"
                  /\ \E c \in Children(p) : frames[c].outcome = "pending"
            /\ frames[p].outcome = "rejected" =>
                  \E c \in Children(p) :
                      /\ frames[c].outcome = "rejected"
                      /\ frames[c].value = frames[p].value
            \* results in input order
            /\ frames[p].outcome = "resolved" =>
                  /\ \A c \in Children(p) : frames[c].outcome = "resolved"
                  /\ frames[p].value[1] = "list"
                  /\ Len(frames[p].value[2]) = Len(frames[p].arg)
                  /\ \A i \in 1..Len(frames[p].arg) :
                        /\ frames[p].value[2][i] = frames[ChildOf(p, i)].value
                        /\ frames[p].value[2][i] =
                              DelegateValue(SingleOf(frames[p].kind),
                                            frames[p].arg[i])
            \* no sibling is cancelled
            /\ \A c \in Children(p) :
                  /\ CanProceed(c)
                  /\ (Done(c) /\ Acquired(c)) =>
                        /\ Times(c, DelegateOf(frames[c].kind)) = 1
                        /\ Times(c, "release") = 1
                  /\ Done(c) => (Acquired(c) \/ Failed(c, "provide"))

\* a step that rejects the array call rejects it with the error of the
\* element that rejects in that step, the first to reject, and changes no
\* sibling; a settled array call stays as it is
C8_FanOutStep ==
    \A p \in 1..MaxFrames :
        (IsArrayCall(p) /\ p \in DOMAIN frames') =>
            /\ frames[p].outcome # "pending" => frames'[p] = frames[p]
            /\ (frames[p].outcome = "pending" /\ frames'[p].outcome = "rejected") =>
                  \E c \in Children(p) :
                      /\ frames[c].outcome = "pending"
                      /\ frames'[c].outcome = "rejected"
                      /\ frames'[p].value = frames'[c].value
                      /\ \A d \in Children(p) \ {c} :
                            /\ frames[d].outcome # "rejected"
                            /\ frames'[d] = frames[d]

\* C8: persist(entities) and remove(entities) start the single-entity call
\* of every element before awaiting any; the array call rejects with the
\* first rejection observed; no sibling is cancelled: each still issues its
\* delegate call and runs to its own completion; when all succeed the
\* results are in input order.
C8_FanOut == []C8_FanOutState /\ [][C8_FanOutStep]_vars

C8_Witness ==
    \E p \in DOMAIN frames :
        /\ IsArrayCall(p)
        /\ Len(frames[p].arg) = 2
        /\ frames[p].outcome = "rejected"
        /\ frames[p].value = Err("delegate", ChildOf(p, 2))
        /\ frames[ChildOf(p, 1)].pc = "awaitDelegate"

\* the single-entity call whose delegate failed, settled
DelegateFailed(f) ==
    /\ frames[f].kind \in SingleKinds
    /\ Done(f)
    /\ Failed(f, "delegate")

\* the statement of C9 as written: the caller observes exactly E, after
\* release(runner), the delegate having been called once.
C9_Original ==
    \A f \in DOMAIN frames :
        DelegateFailed(f) =>
            /\ frames[f].outcome = "rejected"
            /\ frames[f].value = Err("delegate", f)
            /\ Times(f, "release") = 1
            /\ Times(f, DelegateOf(frames[f].kind)) = 1

\* C9: when the delegate of a single-entity persist, remove or query fails
\* with E, the delegate was called once (no retry), release(runner) is
\* called before the caller observes anything, and the caller observes
\* exactly E when release succeeds, the release error when it fails.
C9_DelegateFailurePropagates ==
    \A f \in DOMAIN frames :
        /\ frames[f].kind \in SingleKinds =>
              Times(f, DelegateOf(frames[f].kind)) <= 1
        /\ (frames[f].kind \in SingleKinds /\ Failed(f, "delegate")) =>
              /\ frames[f].outcome # "resolved"
              /\ frames[f].outcome = "rejected" => Done(f)
              /\ Times(f, "release") = 1
        /\ DelegateFailed(f) =>
              /\ frames[f].outcome = "rejected"
              /\ Times(f, DelegateOf(frames[f].kind)) = 1
              /\ frames[f].calls[Len(frames[f].calls)][1] = "release"
              /\ frames[f].value =
                    IF Failed(f, "release") THEN Err("release", f)
                    ELSE Err("delegate", f)

C9_Witness ==
    \E f \in DOMAIN frames :
        /\ DelegateFailed(f)
        /\ frames[f].kind = "query"
        /\ frames[f].value = Err("delegate", f)
        /\ Times(f, "release") = 1

LifecycleKinds == SingleKinds \cup {"transaction"}

\* the statement of C10 as written: every failure raised by a step of the
\* call surfaces to the caller.
C10_Original ==
    \A f \in DOMAIN frames :
        (frames[f].kind \in LifecycleKinds /\ Done(f)) =>
            \A i \in DOMAIN frames[f].raised :
                /\ frames[f].outcome = "rejected"
                /\ frames[f].value = frames[f].raised[i]

\* C10: a persist, remove, query or transaction call in which any step
\* failed never resolves: it rejects, after its cleanup, with the error of
\* the last step that failed; the errors of the steps that failed before
\* that one are masked.
C10_LastFailureSurfaces ==
    \A f \in DOMAIN frames :
        (frames[f].kind \in LifecycleKinds) =>
            /\ frames[f].outcome = "resolved" => frames[f].raised = <<>>
            /\ Done(f) =>
                  IF frames[f].raised = <<>>
                  THEN frames[f].outcome = "resolved"
                  ELSE /\ frames[f].outcome = "rejected"
                       /\ frames[f].value = LastRaised(f)
                       /\ Acquired(f) => Times(f, "release") = 1

C10_Witness ==
    \E f \in DOMAIN frames :
        /\ frames[f].kind = "transaction"
        /\ Done(f)
        /\ frames[f].raised =
              <<Err("commit", f), Err("rollback", f), Err("release", f)>>
        /\ frames[f].value = Err("release", f)

\* the calls a single-entity operation issues on the provider, the
\* persister and the runner, in the order of its lifecycle
Lifecycle(kind) == <<"provide", DelegateOf(kind), "release">>

IsPrefix(s, t) ==
    /\ Len(s) <= Len(t)
    /\ \A i \in DOMAIN s : s[i] = t[i]

\* C14: a single persist, remove or query goes from provide() to the
\* delegate to release(runner) and only then settles: the delegate is
\* called only once provide() resolved and before release, the call
\* settles only after release answered, and when provide() fails neither
\* the delegate nor release is ever called.
C14_SingleOperationLifecycle ==
    \A f \in DOMAIN frames :
        frames[f].kind \in SingleKinds =>
            /\ IsPrefix(Drop(Names(f), "new"), Lifecycle(frames[f].kind))
            /\ Times(f, DelegateOf(frames[f].kind)) > 0 => Acquired(f)
            /\ frames[f].pc = "awaitDelegate" =>
                  /\ Acquired(f)
                  /\ Times(f, "release") = 0
            /\ frames[f].pc \in {"awaitProvide", "awaitDelegate",
                                 "awaitRelease"} =>
                  frames[f].outcome = "pending"
            /\ Failed(f, "provide") =>
                  /\ Done(f) /\ frames[f].outcome = "rejected"
                  /\ ~Acquired(f)
                  /\ Times(f, DelegateOf(frames[f].kind)) = 0
                  /\ Times(f, "release") = 0
            /\ (Done(f) /\ ~Failed(f, "provide")) =>
                  /\ Drop(Names(f), "new") = Lifecycle(frames[f].kind)
                  /\ frames[f].outcome = "rejected" <=>
                        (Failed(f, "delegate") \/ Failed(f, "release"))

C14_Witness ==
    \E f, g \in DOMAIN frames :
        /\ frames[f].kind = "persist" /\ frames[g].kind = "persist"
        /\ Done(f) /\ Failed(f, "provide") /\ frames[f].calls # <<>>
        /\ Done(g) /\ Failed(g, "delegate") /\ Times(g, "release") = 1
        /\ frames[g].value = Err("delegate", g)

\* the frames that use provider p
UsersOf(p) == {g \in DOMAIN frames : frames[g].prov = p}

\* the providers constructed by the calls (not by the caller)
Constructed == {p \in DOMAIN providers : providers[p].by # 0}

C17_ProviderState ==
    /\ \A f \in DOMAIN frames :
          IF frames[f].kind \in LifecycleKinds /\ frames[f].self = 0
          THEN /\ Times(f, "new") = 1
               /\ frames[f].calls[1] =
                     <<"new", frames[f].prov,
                       frames[f].kind \in {"remove", "transaction"}>>
               /\ frames[f].prov \in Constructed
               /\ providers[frames[f].prov] =
                     [flag |-> frames[f].kind \in {"remove", "transaction"},
                      by |-> f]
               /\ frames[f].kind \in SingleKinds =>
                     UsersOf(frames[f].prov) = {f}
               /\ \A g \in UsersOf(frames[f].prov) :
                     g = f \/ frames[g].self = frames[f].prov
          ELSE /\ Times(f, "new") = 0
               /\ frames[f].kind \in LifecycleKinds =>
                     /\ frames[f].prov = frames[f].self
                     /\ frames[f].self \in DOMAIN providers
                     /\ providers[frames[f].self].by # f
    /\ \A p \in Constructed :
          /\ providers[p].by \in DOMAIN frames
          /\ frames[providers[p].by].prov = p
          /\ frames[providers[p].by].self = 0

C17_ProviderStep ==
    /\ \A p \in DOMAIN providers :
          p \in DOMAIN providers' /\ providers'[p] = providers[p]
    /\ \A p \in DOMAIN providers' \ DOMAIN providers :
          \/ /\ frames = <<>>
             /\ providers'[p].by = 0
          \/ /\ providers'[p].by \in DOMAIN frames' \ DOMAIN frames
             /\ frames'[providers'[p].by].self = 0

\* C17: a persist, remove, query or transaction call constructs a
\* QueryRunnerProvider exactly when its Repository holds none: once per
\* single-entity call, with the flag true for remove and transaction and
\* unset for persist and query; a Repository that holds a provider
\* constructs none and uses the one it holds, which no call ever alters;
\* array calls and the find family construct none.
C17_ProviderConstruction == []C17_ProviderState /\ [][C17_ProviderStep]_vars

C17_Witness ==
    \E t, g, h \in DOMAIN frames :
        /\ frames[t].kind = "transaction" /\ frames[t].self = 0
        /\ providers[frames[t].prov] = [flag |-> TRUE, by |-> t]
        /\ frames[g].parent = t /\ frames[g].kind = "persistAll"
        /\ frames[h].parent = g /\ frames[h].kind = "persist"
        /\ frames[h].prov = frames[t].prov
        /\ Times(h, "new") = 0
        /\ Done(h)

\* commitTransaction of t was called and answered without error
CommitSucceeded(t) ==
    /\ Times(t, "commitTransaction") > 0
    /\ frames[t].pc # "awaitCommit"
    /\ ~Failed(t, "commit")

\* work of t ran to its return: it threw nothing and every call it awaited
\* resolved
WorkCompleted(t) ==
    /\ Times(t, "work") = 1
    /\ frames[t].script # <<>>
    /\ frames[t].script[Len(frames[t].script)] = "return"
    /\ ~Failed(t, "work") /\ ~Failed(t, "begin")
    /\ \A g \in DOMAIN frames :
          frames[g].parent = t => frames[g].outcome = "resolved"

\* C18: within one transaction() call commitTransaction is called at most
\* once, and only after work returned without error; rollbackTransaction
\* is called at most once and never after a commit that succeeded; when
\* commitTransaction fails, rollbackTransaction is called next and the call
\* rejects.
C18_CommitRollbackExclusive ==
    \A t \in DOMAIN frames :
        frames[t].kind = "transaction" =>
            /\ Times(t, "commitTransaction") <= 1
            /\ Times(t, "rollbackTransaction") <= 1
            /\ \A i \in Places(t, "commitTransaction") :
                  /\ WorkCompleted(t)
                  /\ \E j \in 1..(i - 1) : frames[t].calls[j][1] = "work"
                  /\ \A j \in Places(t, "rollbackTransaction") : i < j
            /\ CommitSucceeded(t) => Times(t, "rollbackTransaction") = 0
            /\ frames[t].pc = "awaitCommit" =>
                  Times(t, "rollbackTransaction") = 0
            /\ Failed(t, "commit") =>
                  /\ \A i \in Places(t, "commitTransaction") :
                        /\ i < Len(frames[t].calls)
                        /\ frames[t].calls[i + 1] =
                              <<"rollbackTransaction", frames[t].runner>>
                  /\ Times(t, "rollbackTransaction") = 1
                  /\ frames[t].outcome # "resolved"
                  /\ Done(t) => frames[t].outcome = "rejected"

C18_Witness ==
    \E t \in DOMAIN frames :
        /\ frames[t].kind = "transaction"
        /\ Done(t)
        /\ Failed(t, "commit")
        /\ frames[t].script = <<"persist", "return">>
        /\ Times(t, "rollbackTransaction") = 1
        /\ frames[t].value = Err("commit", t)

\* transaction t whose beginTransaction failed, settled
BeginFailed(t) ==
    /\ frames[t].kind = "transaction"
    /\ Failed(t, "begin")
    /\ Done(t)

\* C19: when beginTransaction fails, work is never called and
\* commitTransaction is never called, rollbackTransaction is called all the
\* same, release(runner) is called, and releaseReused() too when the
\* Repository was constructed without a provider, and the call rejects,
\* with the begin error when rollback and release succeeded.
C19_BeginFailure ==
    \A t \in DOMAIN frames :
        BeginFailed(t) =>
            /\ Times(t, "work") = 0
            /\ frames[t].script = <<>>
            /\ Times(t, "commitTransaction") = 0
            /\ Times(t, "rollbackTransaction") = 1
            /\ Times(t, "release") = 1
            /\ Owns(frames, t) => Times(t, "releaseReused") = 1
            /\ frames[t].outcome = "rejected"
            /\ (~Failed(t, "rollback") /\ ~Failed(t, "release")) =>
                  frames[t].value = Err("begin", t)

---------------------------------------------------------------------------
(* Array calls under the assumption that every call answers.               *)

\* a provide(), delegate or release() call in flight answers
Completions ==
    /\ \E f \in 1..MaxFrames, ok \in BOOLEAN :
          Provided(f, ok) \/ Delegated(f, ok) \/ Released(f, ok)
    /\ UNCHANGED sync

\* the caller makes an array call and every call beneath it runs
FanOutNext ==
    \/ \E kind \in ArrayKinds, given, flag \in BOOLEAN, arg \in ArrayArgs :
          Call(kind, given, flag, arg) /\ UNCHANGED sync
    \/ \E f \in 1..MaxFrames, ok \in BOOLEAN : Provided(f, ok) /\ UNCHANGED sync
    \/ \E f \in 1..MaxFrames, ok \in BOOLEAN : Delegated(f, ok) /\ UNCHANGED sync
    \/ \E f \in 1..MaxFrames, ok \in BOOLEAN : Released(f, ok) /\ UNCHANGED sync

FanOutSpec == Init /\ [][FanOutNext]_vars /\ WF_vars(Completions)

\* frame c is a single-entity call of an array call
IsSibling(c) ==
    /\ c \in DOMAIN frames
    /\ frames[c].parent # 0
    /\ IsArrayCall(frames[c].parent)

\* the runner handed to c is still out: c did not get the answer of its
\* release yet
Leased(c) == Acquired(c) /\ ~Done(c)

ReleasedOnce(c) == Done(c) /\ Times(c, "release") = 1

C20_SiblingState ==
    \A p \in DOMAIN frames :
        IsArrayCall(p) =>
            /\ \A c \in Children(p) :
                  /\ Times(c, "release") <= 1
                  /\ Times(c, "release") = 1 => Acquired(c)
            /\ (\A c \in Children(p) : Done(c)) =>
                  /\ Cardinality({c \in Children(p) : Times(c, "release") = 1})
                        = Cardinality({c \in Children(p) : Acquired(c)})
                  /\ \A c \in Children(p) :
                        /\ ~Leased(c)
                        /\ Times(c, "provide") = 1
                        /\ Acquired(c) <=> ~Failed(c, "provide")

\* C20: in an array persist or remove every single-entity call that was
\* given a runner releases it exactly once, sooner or later, also when the
\* array call has rejected before; when every provide, delegate and release
\* call answers, all single-entity calls finish, and then there are as many
\* release calls as provide() calls that resolved and no runner is out.
C20_SiblingsRelease ==
    /\ []C20_SiblingState
    /\ <>[](\A c \in DOMAIN frames :
               IsSibling(c) => (Done(c) /\ (Acquired(c) => ReleasedOnce(c))))

C20_Witness ==
    \E p \in DOMAIN frames :
        /\ IsArrayCall(p)
        /\ frames[p].kind = "persistAll"
        /\ Len(frames[p].arg) = 2
        /\ frames[p].outcome = "rejected"
        /\ frames[p].value = Err("provide", ChildOf(p, 2))
        /\ ReleasedOnce(ChildOf(p, 1))
        /\ frames[ChildOf(p, 1)].outcome = "resolved"
        /\ Done(ChildOf(p, 2))

---------------------------------------------------------------------------
(* Properties of the synchronous methods.                                  *)

\* the value is one a primary key can be made of
RealValue(v) == v # Null /\ v # NoVal /\ v # Str(<<>>)

\* C11: hasId(entity) is true exactly when every primary-key property of
\* the metadata is an own property of the entity and holds a value other
\* than null, undefined and ""; so it is false when one of them is missing,
\* null, undefined or "", and for a null or undefined entity of a class
\* with a primary key; the call makes no call on a collaborator and
\* changes nothing.
C11_HasId ==
    returned.call = "hasId" =>
        LET entity == returned.args[1]
            keys == {returned.metadata.primaryColumns[i].propertyName :
                        i \in DOMAIN returned.metadata.primaryColumns}
        IN  /\ returned.value \in BOOLEAN
            /\ returned.value <=>
                  \A k \in keys :
                      /\ IsObject(entity)
                      /\ k \in DOMAIN entity[2]
                      /\ RealValue(entity[2][k])
            /\ (entity \in {Null, NoVal} /\ keys # {}) => ~returned.value
            /\ returned.calls = <<>>
            /\ frames = <<>> /\ providers = <<>> /\ tables = <<>>

C11_Witness ==
    /\ returned.call = "hasId"
    /\ Len(returned.metadata.primaryColumns) = 2
    /\ IsObject(returned.args[1])
    /\ returned.args[1][2] =
          [k \in {PropertyName(1)} |-> Num(0)]
    /\ returned.args[1][3] = [k \in Properties |-> Str(<<"a">>)]
    /\ returned.value = FALSE

FindCalled == returned.call \in {"find", "findOne", "findAndCount"}

\* the argument is a FindOptions object
GivenOptions(v) == v # NoVal /\ v[1] = "findOptions"

\* the argument is a plain conditions object
GivenConditions(v) == v # NoVal /\ v[1] = "plain"

\* the alias C15 expects of the arguments
ExpectedAlias ==
    IF GivenOptions(returned.args[1]) THEN returned.args[1][2]
    ELSE IF GivenOptions(returned.args[2]) THEN returned.args[2][2]
    ELSE returned.metadata.table.name

\* C15: the query built for find, findOne and findAndCount selects from the
\* entity's target under the alias the FindOptions declares, when the first
\* or the second argument is a FindOptions, and under the table name
\* otherwise; without arguments it has no predicate and no parameter and
\* its alias is the table name; the alias is never undefined.
C15_AliasResolution ==
    FindCalled =>
        LET qb == returned.value.qb
        IN  /\ qb.select = ExpectedAlias
            /\ qb.from = <<returned.metadata.target, ExpectedAlias>>
            /\ returned.calls[1] = <<"select", ExpectedAlias>>
            /\ qb.select # NoVal /\ qb.select # Null
            /\ qb.select \in {<<"u">>, <<"v">>, returned.metadata.table.name}
            /\ returned.args = <<NoVal, NoVal>> =>
                  /\ qb.select = returned.metadata.table.name
                  /\ qb.wheres = <<>>
                  /\ DOMAIN qb.parameters = {}
                  /\ qb.options = NoVal

C15_Witness ==
    /\ returned.call = "find"
    /\ GivenConditions(returned.args[1])
    /\ Len(returned.args[1][2]) = 1
    /\ returned.args[2] = FindOptions(<<"u">>, Num(10))
    /\ returned.value.qb.select = <<"u">>
    /\ returned.metadata.table.name = <<"t">>

\* the key holds the qualifier separator
Qualified(key) == \E i \in DOMAIN key : key[i] = "."

\* C16: for plain conditions the query gets one andWhere predicate per key,
\* in the order of the keys: the key itself when it holds a '.', else
\* alias.key, then "=:" and the key; the parameters bound are the keys with
\* their values; when the first argument is a FindOptions the query gets no
\* predicate and no parameter from conditions.
C16_ConditionPredicates ==
    FindCalled =>
        LET qb == returned.value.qb
            given == returned.args[1]
        IN  /\ GivenConditions(given) =>
                  LET pairs == given[2]
                  IN  /\ Len(qb.wheres) = Len(pairs)
                      /\ \A i \in DOMAIN pairs :
                            LET key == pairs[i][1]
                                ref == IF Qualified(key) THEN key
                                       ELSE qb.select \o <<".">> \o key
                            IN  /\ qb.wheres[i] = ref \o <<"=", ":">> \o key
                                /\ \E j \in DOMAIN returned.calls :
                                      returned.calls[j] =
                                          <<"andWhere", qb.wheres[i]>>
                                /\ key \in DOMAIN qb.parameters
                                /\ qb.parameters[key] = pairs[i][2]
                      /\ DOMAIN qb.parameters =
                            {pairs[i][1] : i \in DOMAIN pairs}
            /\ ~GivenConditions(given) =>
                  /\ qb.wheres = <<>>
                  /\ DOMAIN qb.parameters = {}
                  /\ \A j \in DOMAIN returned.calls :
                        returned.calls[j][1] # "andWhere"

C16_Witness ==
    /\ returned.call = "findOne"
    /\ returned.args = <<Plain(<<<<<<"n">>, Str(<<"a">>)>>,
                                 <<<<"u", ".", "n">>, Num(0)>>>>),
                        FindOptions(<<"v">>, NoVal)>>
    /\ returned.value.qb.wheres =
          <<<<"v", ".", "n", "=", ":", "n">>,
            <<"u", ".", "n", "=", ":", "u", ".", "n">>>>

\* the columns of the metadata, primary ones first
KeyColumns(metadata) == metadata.primaryColumns \o metadata.parentIdColumns

\* C12: findOneById(id, options) on a composite-key entity makes one
\* condition per primary-key column and per parent-id column, under the
\* column's name, holding the entry of id under the column's property; on
\* any other entity one condition binding id to the only primary-key
\* column, or to the first parent-id column when there is no primary-key
\* column; the query is the one findOne builds from these conditions and
\* is asked for a single result.
C12_FindOneByIdConditions ==
    returned.call = "findOneById" =>
        LET metadata == returned.metadata
            id == returned.args[1]
            pairs == returned.value.conditions[2]
            columns == KeyColumns(metadata)
        IN  /\ IF HasMultiplePrimaryKeys(metadata)
               THEN /\ Len(pairs) = Len(columns)
                    /\ \A i \in DOMAIN columns :
                          pairs[i] = <<columns[i].name,
                                       id[2][columns[i].propertyName]>>
               ELSE IF columns # <<>>
               THEN pairs = <<<<columns[1].name, id>>>>
               ELSE pairs = <<>>
            /\ returned.value.fetch = FetchOf("findOne")
            /\ returned.value.qb =
                  CreateFindQueryBuilder(metadata, Plain(pairs),
                                         returned.args[2])

---------------------------------------------------------------------------
(* Properties of the decorator.                                            *)

ChildTables ==
    {i \in DOMAIN tables : tables[i].type = "single-table-child"}

C13_RegistryState ==
    /\ \A i \in ChildTables :
          /\ tables[i].target \in Classes
          /\ tables[i].name = NoVal
          /\ tables[i].orderBy = NoVal
          /\ DOMAIN tables[i] = {"target", "name", "type", "orderBy"}
    /\ \A i \in DOMAIN tables \ ChildTables :
          <<tables[i]>> \in Registered

C13_RegistryStep ==
    /\ Len(tables') = Len(tables) + 1
    /\ \A i \in DOMAIN tables : tables'[i] = tables[i]
    /\ \E target \in Classes :
          tables'[Len(tables')] =
              [target |-> target, name |-> NoVal,
               type |-> "single-table-child", orderBy |-> NoVal]
    /\ UNCHANGED <<frames, providers, returned>>

\* C13: every application of the SingleTableChild decorator adds one record
\* to the tables of the metadata args storage, with the decorated class as
\* target, type "single-table-child" and name and orderBy undefined, and
\* leaves every record the storage held, and everything else, as it was:
\* n applications add n such records.
C13_OneRecordPerClass == []C13_RegistryState /\ [][C13_RegistryStep]_vars

C13_Witness ==
    /\ Len(tables) = 3
    /\ tables[1].type = "regular"
    /\ tables[2] = SingleTableChildArgs(<<"class", 2>>)
    /\ tables[3].target = <<"class", 3>>
    /\ ChildTables = {2, 3}

====
